---- MODULE Spec2Model ----
(***************************************************************************)
(* Model of ubidots/apiclient.py (Python 2): the authenticated request     *)
(* bridge (ServerBridge) with its decorators try_again and                 *)
(* raise_informative_exception, the client-side validator validate_input,  *)
(* and the guarded operations of ApiClient, Datasource and Variable.       *)
(*                                                                         *)
(* The HTTP transport (requests.get/post/delete) is the environment: each  *)
(* transport call is recorded in `log` and is answered by an arbitrary     *)
(* response drawn from Responses.                                          *)
(***************************************************************************)
EXTENDS Integers, Sequences, FiniteSets, TLC

(***************************************************************************)
(* Bounds of the model.                                                    *)
(***************************************************************************)
NumTokens == 2      \* distinct session tokens the server can issue
MaxLen == 2         \* longest list passed to save_values / save_collection

(***************************************************************************)
(* Program constants.                                                      *)
(***************************************************************************)
BASE_URL == "http://app.ubidots.com/api/"
number_of_tries == 2
\* a loop that runs once too often
in_range_off_by_one(n) == n <= number_of_tries
\* for i in range(number_of_tries): whether the loop has an iteration n
in_range(n) == n < number_of_tries

\* a retry list that forgets 401
AuthErrorCodes_without_401 == {403}
AuthErrorCodes == {403, 401}              \* @try_again([403, 401])
\* a resource decorator that forgets 500
ResourceErrorCodes_without_500 == {400}
ResourceErrorCodes == {400, 500}          \* @raise_informative_exception([400, 500])
\* an exchange decorator that lets 401 and 403 through
ApikeyErrorCodes_without_rejections == {400, 500}
ApikeyErrorCodes == {400, 500, 401, 403}  \* decorator of _post_with_apikey

(***************************************************************************)
(* The environment: threads, status codes, response bodies.                *)
(***************************************************************************)
Threads == {1, 2}
Main == 1

Tokens == {"tok" \o ToString(n) : n \in 1..NumTokens}
TokenDoc(tok) == "{\"token\": \"" \o tok \o "\"}"
PlainBody == "bad field"
\* the receivers of the Datasource and Variable methods, and the documents
\* the service sends for a variable and for a list of variables
DatasourceId == "d1"
VariableId == "v1"
DatasourceUrl == BASE_URL \o "datasources/" \o DatasourceId
VariableDoc ==
    "{\"id\": \"" \o VariableId \o "\", \"datasource\": {\"url\": \"" \o DatasourceUrl \o "\"}}"
ArrayDocs == {"[]", "[" \o VariableDoc \o "]"}
Texts == {PlainBody, VariableDoc} \cup ArrayDocs \cup {TokenDoc(tok) : tok \in Tokens}
StatusCodes == {200, 400, 401, 403, 404, 500}
Responses == [status_code : StatusCodes, text : Texts]
NoResponse == [status_code |-> 0, text |-> ""]

Contains(s, sub) ==
    \E k \in 1..(Len(s) - Len(sub) + 1) : SubSeq(s, k, k + Len(sub) - 1) = sub

(***************************************************************************)
(* Python dictionaries are functions from key strings to values.           *)
(***************************************************************************)
EmptyDict == [k \in {} |-> ""]
Dict1(k, v) == [x \in {k} |-> v]
\* dict(a.items() + b.items()): on a shared key the later item wins
Update(a, b) == [k \in (DOMAIN a) \cup (DOMAIN b) |-> IF k \in DOMAIN b THEN b[k] ELSE a[k]]

(***************************************************************************)
(* response.json(): the decoded document, or the exception json raises.    *)
(***************************************************************************)
IsArray(text) == text \in ArrayDocs
IsJson(text) == text = VariableDoc \/ IsArray(text) \/ \E tok \in Tokens : text = TokenDoc(tok)
\* the decoded object; the url of the nested object under "datasource" is
\* kept under the key "datasource.url"
json(text) ==
    IF text = VariableDoc
    THEN [k \in {"id", "datasource.url"} |-> IF k = "id" THEN VariableId ELSE DatasourceUrl]
    ELSE Dict1("token", CHOOSE tok \in Tokens : text = TokenDoc(tok))
\* the decoded array
json_list(text) == IF text = "[]" THEN <<>> ELSE <<json(VariableDoc)>>
ValueError == [type |-> "ValueError", message |-> "No JSON object could be decoded"]

(***************************************************************************)
(* Exceptions and results of a call.                                       *)
(***************************************************************************)
Exc(type, message) == [type |-> type, message |-> message]
NoExc == Exc("", "")

\* an error for 500 that echoes the body as the one for 400 does
create_exception_object_echoing(code, body) ==
    IF code = 500 THEN Exc("UbidotsError500", "An Internal Server Error Occurred." \o body)
    ELSE IF code = 400 THEN Exc("UbidotsError400", "Your request is invalid:\n  " \o body)
    ELSE Exc("UbidotsError", body)

create_exception_object(code, body) ==
    IF code = 500 THEN Exc("UbidotsError500", "An Internal Server Error Occurred.")
    ELSE IF code = 400 THEN Exc("UbidotsError400", "Your request is invalid:\n  " \o body)
    ELSE Exc("UbidotsError", body)

\* the wrapper of raise_informative_exception: the exception it raises for a
\* response, or NoExc when it returns the response
raise_informative_exception(list_of_error_codes, response) ==
    IF response.status_code \in list_of_error_codes
    THEN create_exception_object(response.status_code, response.text)
    ELSE NoExc

\* the value an operation returns: a decoded dict or list, or a Datasource or
\* Variable with its raw attributes and, for a Variable, the raw attributes
\* of the Datasource in its datasource relation
Value(type, raw, list, datasource) ==
    [type |-> type, raw |-> raw, list |-> list, datasource |-> datasource]
NoValue == Value("", EmptyDict, <<>>, EmptyDict)
NoResult == [kind |-> "none", exc |-> NoExc, response |-> NoResponse, value |-> NoValue]
Raised(e) == [kind |-> "raise", exc |-> e, response |-> NoResponse, value |-> NoValue]
Returned(r, v) == [kind |-> "return", exc |-> NoExc, response |-> r, value |-> v]

(***************************************************************************)
(* Headers.                                                                *)
(***************************************************************************)
_get_custom_headers == Dict1("content-type", "application/json")

RECURSIVE _transform_a_list_of_dictionaries_to_a_dictionary(_)
_transform_a_list_of_dictionaries_to_a_dictionary(list_of_dicts) ==
    IF list_of_dicts = <<>> THEN EmptyDict
    ELSE Update(Head(list_of_dicts),
                _transform_a_list_of_dictionaries_to_a_dictionary(Tail(list_of_dicts)))

_prepare_headers(args) ==
    Update(_transform_a_list_of_dictionaries_to_a_dictionary(args), _get_custom_headers)


(***************************************************************************)
(* Python values passed as the first argument of the guarded operations:   *)
(* a scalar (int or str), a dict, or a list of dicts.  A dict maps its     *)
(* keys to the type of the value stored under the key.                     *)
(***************************************************************************)
ValueTypes == {"int", "str"}
Scalar(type) == [type |-> type, dict |-> EmptyDict, list |-> <<>>]
PyDict(d) == [type |-> "dict", dict |-> d, list |-> <<>>]
PyList(l) == [type |-> "list", dict |-> EmptyDict, list |-> l]
NoData == Scalar("NoneType")

\* the program inspects the type of a timestamp, of an id and of a url only
TypesOf(key) == IF key \in {"timestamp", "id", "url"} THEN ValueTypes ELSE {"str"}
DictsOver(keys) ==
    UNION {{d \in [S -> ValueTypes] : \A k \in S : d[k] \in TypesOf(k)} : S \in SUBSET keys}
ListsOver(keys) == UNION {[1..n -> DictsOver(keys)] : n \in 0..MaxLen}
\* the arguments tried on an operation that declares `type`: every value of
\* that type over the keys, and values of each other type
ArgsOver(type, keys) ==
    {Scalar(ty) : ty \in ValueTypes}
        \cup {PyDict(d) : d \in IF type = "dict" THEN DictsOver(keys) ELSE {EmptyDict}}
        \cup {PyList(l) : l \in IF type = "list" THEN ListsOver(keys) ELSE {<<>>}}

(***************************************************************************)
(* validate_input: the exception the wrapper raises before calling fn, or  *)
(* NoExc when it goes on to call fn.                                       *)
(***************************************************************************)
\* a check that looks at the first required key only
check_keys_first_key_only(required_keys, obj) ==
    IF required_keys = <<>> \/ required_keys[1] \in DOMAIN obj THEN NoExc
    ELSE Exc("UbidotsInvalidInputError", "Key \"" \o required_keys[1] \o "\" is missing")

\* check_keys(obj): the first key of required_keys that obj lacks is reported
check_keys(required_keys, obj) ==
    LET missing == {k \in 1..Len(required_keys) : required_keys[k] \notin DOMAIN obj}
        first == CHOOSE k \in missing : \A m \in missing : k <= m
    IN  IF missing = {} THEN NoExc
        ELSE Exc("UbidotsInvalidInputError",
                 "Key \"" \o required_keys[first] \o "\" is missing")

\* a check that looks at the first element only
map_check_keys_first_element_only(required_keys, list) ==
    IF list = <<>> THEN NoExc ELSE check_keys(required_keys, list[1])

\* map(check_keys, args[0]): Python 2's map is eager and visits the elements
\* in order, so the first element that fails raises
map_check_keys(required_keys, list) ==
    LET failing == {n \in 1..Len(list) : check_keys(required_keys, list[n]) # NoExc}
        first == CHOOSE n \in failing : \A m \in failing : n <= m
    IN  IF failing = {} THEN NoExc ELSE check_keys(required_keys, list[first])

\* a validator without the isinstance test
validate_input_untyped(type, required_keys, arg) ==
    IF arg.type = "list" THEN map_check_keys(required_keys, arg.list)
    ELSE IF arg.type = "dict" THEN check_keys(required_keys, arg.dict)
    ELSE NoExc

validate_input(type, required_keys, arg) ==
    IF arg.type # type
    THEN Exc("UbidotsInvalidInputError",
             "Invalid argument type. Required: <type '" \o type \o "'>")
    ELSE IF arg.type = "list" THEN map_check_keys(required_keys, arg.list)
    ELSE IF arg.type = "dict" THEN check_keys(required_keys, arg.dict)
    ELSE NoExc

(***************************************************************************)
(* State.                                                                  *)
(***************************************************************************)
VARIABLES
    _token,          \* ServerBridge._token
    _token_header,   \* ServerBridge._token_header
    _apikey,         \* ServerBridge._apikey
    _apikey_header,  \* ServerBridge._apikey_header
    log,             \* the calls the transport has seen for the operations
                     \* that are running or have just ended
    pc,              \* per thread: position inside the running operation
    op,              \* per thread: the operation in progress and its arguments
    i,               \* per thread: loop variable of try_again
    headers,         \* per thread: local `headers` of get/post/delete
    response,        \* per thread: local `response` of try_again
    result           \* per thread: outcome of the operation that has ended

vars == <<_token, _token_header, _apikey, _apikey_header, log,
          pc, op, i, headers, response, result>>
bridge == <<_token, _token_header, _apikey, _apikey_header>>

NoOp == [name |-> "", method |-> "", path |-> "", data |-> NoData, force |-> FALSE]
AuthUrl == BASE_URL \o "auth/token"

Init ==
    /\ _token \in Tokens
    /\ _token_header = Dict1("X-AUTH-TOKEN", _token)
    /\ _apikey = "apikey"
    /\ _apikey_header = Dict1("X-UBIDOTS-APIKEY", _apikey)
    /\ log = <<>>
    /\ pc = [t \in Threads |-> "idle"]
    /\ op = [t \in Threads |-> NoOp]
    /\ i = [t \in Threads |-> 0]
    /\ headers = [t \in Threads |-> EmptyDict]
    /\ response = [t \in Threads |-> NoResponse]
    /\ result = [t \in Threads |-> NoResult]

(***************************************************************************)
(* Entering and leaving an operation.                                      *)
(***************************************************************************)
\* thread t, with no operation running, calls one
Begin(t) ==
    /\ pc[t] = "idle"
    /\ UNCHANGED <<bridge, log, i, headers, response>>

\* the operation raises e before the bridge is entered
RaiseEarly(t, o, e) ==
    /\ op' = [op EXCEPT ![t] = o]
    /\ result' = [result EXCEPT ![t] = Raised(e)]
    /\ pc' = [pc EXCEPT ![t] = "done"]

\* the operation enters the wrapped bridge method: try_again starts its loop
EnterBridge(t, o) ==
    /\ op' = [op EXCEPT ![t] = o]
    /\ result' = [result EXCEPT ![t] = NoResult]
    /\ pc' = [pc EXCEPT ![t] = "prepare"]

Operation(name, method, path, data, force) ==
    [name |-> name, method |-> method, path |-> path, data |-> data, force |-> force]

(***************************************************************************)
(* ServerBridge.get / post / delete called directly.                       *)
(***************************************************************************)
BridgePaths == {"datasources"}
SomeData == PyDict(Dict1("name", "str"))

get(t, path) ==
    /\ Begin(t)
    /\ EnterBridge(t, Operation("get", "GET", path, NoData, FALSE))

post(t, path, data) ==
    /\ Begin(t)
    /\ EnterBridge(t, Operation("post", "POST", path, data, FALSE))

delete(t, path) ==
    /\ Begin(t)
    /\ EnterBridge(t, Operation("delete", "DELETE", path, NoData, FALSE))

(***************************************************************************)
(* The body of get / post / delete under its two decorators.               *)
(***************************************************************************)
\* headers built on the first attempt and reused by the retry
PrepareHeaders_captured_once(t) ==
    /\ pc[t] = "prepare"
    /\ headers' = [headers EXCEPT ![t] =
                    IF i[t] = 0 THEN _prepare_headers(<<_token_header>>) ELSE headers[t]]
    /\ pc' = [pc EXCEPT ![t] = "send"]
    /\ UNCHANGED <<bridge, log, op, i, response, result>>

\* headers = self._prepare_headers(self._token_header)
PrepareHeaders(t) ==
    /\ pc[t] = "prepare"
    /\ headers' = [headers EXCEPT ![t] = _prepare_headers(<<_token_header>>)]
    /\ pc' = [pc EXCEPT ![t] = "send"]
    /\ UNCHANGED <<bridge, log, op, i, response, result>>

\* .json()['token'] of _get_token: the exception it raises on a body, if any
token_error(text) ==
    IF ~IsJson(text) THEN ValueError
    ELSE IF IsArray(text) THEN Exc("TypeError", "list indices must be integers, not str")
    ELSE IF "token" \notin DOMAIN json(text) THEN Exc("KeyError", "'token'")
    ELSE NoExc

\* the transport's record of one call and of the status of its answer;
\* `held` is the session token the bridge holds when the call is sent,
\* `issued` the token that the answer of an API-key exchange carries
Call(t, method, url, hdrs, answer) ==
    [by |-> t, method |-> method, url |-> url, headers |-> hdrs,
     held |-> _token, status |-> answer.status_code,
     issued |-> IF url = AuthUrl /\ token_error(answer.text) = NoExc
                THEN json(answer.text)["token"] ELSE ""]

\* response = requests.<method>(self.base_url + path, headers = headers)
\* sent only while the headers hold the bridge's token, as under a lock held
\* from the construction of the headers to the call
Answer_under_lock(t, r) ==
    LET e == raise_informative_exception(ResourceErrorCodes, r) IN
    /\ pc[t] = "send"
    /\ headers[t]["X-AUTH-TOKEN"] = _token
    /\ log' = Append(log, Call(t, op[t].method, BASE_URL \o op[t].path, headers[t], r))
    /\ response' = [response EXCEPT ![t] = r]
    /\ IF e # NoExc
       THEN /\ result' = [result EXCEPT ![t] = Raised(e)]
            /\ pc' = [pc EXCEPT ![t] = "done"]
       ELSE /\ UNCHANGED result
            /\ pc' = [pc EXCEPT ![t] =
                        IF r.status_code \notin AuthErrorCodes
                        THEN "return" ELSE "initialize"]
    /\ UNCHANGED <<bridge, op, i, headers>>

\* response = requests.<method>(self.base_url + path, headers = headers)
\* answered with r, then the wrapper of raise_informative_exception([400, 500]),
\* then the test of try_again([403, 401]) on the response
Answer(t, r) ==
    LET e == raise_informative_exception(ResourceErrorCodes, r) IN
    /\ pc[t] = "send"
    /\ log' = Append(log, Call(t, op[t].method, BASE_URL \o op[t].path, headers[t], r))
    /\ response' = [response EXCEPT ![t] = r]
    /\ IF e # NoExc
       THEN /\ result' = [result EXCEPT ![t] = Raised(e)]
            /\ pc' = [pc EXCEPT ![t] = "done"]
       ELSE /\ UNCHANGED result
            /\ pc' = [pc EXCEPT ![t] =
                        IF r.status_code \notin AuthErrorCodes
                        THEN "return" ELSE "initialize"]
    /\ UNCHANGED <<bridge, op, i, headers>>

\* the call of t is sent and the transport answers it
Send(t) == \E r \in Responses : Answer(t, r)

\* an installation of the token that leaves the session header as it was
_get_token_keeping_header(a) ==
    /\ _token' = json(a.text)["token"]
    /\ UNCHANGED _token_header

\* the two assignments of _get_token, for an answer a that passed the
\* decorator of _post_with_apikey and decodes to a token
_get_token(a) ==
    /\ _token' = json(a.text)["token"]
    /\ _token_header' = Dict1("X-AUTH-TOKEN", _token')

\* self.initialize() inside try_again, its exchange answered with a:
\* _get_token calls _post_with_apikey (wrapped by
\* raise_informative_exception([400, 500, 401, 403])), decodes the answer and
\* installs the token and the session header; then the loop of try_again
\* goes on, or ends with `return response`
Exchange(t, a) ==
    LET raised == raise_informative_exception(ApikeyErrorCodes, a)
        e == IF raised # NoExc THEN raised ELSE token_error(a.text)
    IN
    /\ pc[t] = "initialize"
    /\ log' = Append(log, Call(t, "POST", AuthUrl, _prepare_headers(<<_apikey_header>>), a))
    /\ IF e # NoExc
       THEN /\ result' = [result EXCEPT ![t] = Raised(e)]
            /\ pc' = [pc EXCEPT ![t] = "done"]
            /\ UNCHANGED <<_token, _token_header, i>>
       ELSE /\ _get_token(a)
            /\ i' = [i EXCEPT ![t] = i[t] + 1]
            /\ pc' = [pc EXCEPT ![t] =
                        IF in_range(i[t] + 1) THEN "prepare" ELSE "return"]
            /\ UNCHANGED result
    /\ UNCHANGED <<_apikey, _apikey_header, op, headers, response>>

initialize(t) == \E a \in Responses : Exchange(t, a)

(***************************************************************************)
(* ServerBridge.__init__: the fields are assigned and self.initialize() is *)
(* called, outside try_again.  An exception leaves the caller without a    *)
(* bridge.                                                                 *)
(***************************************************************************)
\* a constructor that calls initialize again after a failure
__init___retrying(t) ==
    /\ pc[t] = "new"
    /\ \E a \in Responses :
        LET raised == raise_informative_exception(ApikeyErrorCodes, a)
            e == IF raised # NoExc THEN raised ELSE token_error(a.text)
        IN
        /\ log' = Append(log, Call(t, "POST", AuthUrl, _prepare_headers(<<_apikey_header>>), a))
        /\ IF e # NoExc
           THEN UNCHANGED <<_token, _token_header, pc, result>>
           ELSE /\ _get_token(a)
                /\ result' = [result EXCEPT ![t] = Returned(NoResponse, NoValue)]
                /\ pc' = [pc EXCEPT ![t] = "done"]
    /\ UNCHANGED <<_apikey, _apikey_header, op, i, headers, response>>

__init__(t) ==
    /\ pc[t] = "new"
    /\ \E a \in Responses :
        LET raised == raise_informative_exception(ApikeyErrorCodes, a)
            e == IF raised # NoExc THEN raised ELSE token_error(a.text)
        IN
        /\ log' = Append(log, Call(t, "POST", AuthUrl, _prepare_headers(<<_apikey_header>>), a))
        /\ IF e # NoExc
           THEN /\ result' = [result EXCEPT ![t] = Raised(e)]
                /\ pc' = [pc EXCEPT ![t] = "failed"]
                /\ UNCHANGED <<_token, _token_header>>
           ELSE /\ _get_token(a)
                /\ result' = [result EXCEPT ![t] = Returned(NoResponse, NoValue)]
                /\ pc' = [pc EXCEPT ![t] = "done"]
    /\ UNCHANGED <<_apikey, _apikey_header, op, i, headers, response>>

(***************************************************************************)
(* The guarded operations of ApiClient, Datasource and Variable.  The      *)
(* receiver of a Datasource or Variable method is an instance with the id  *)
(* below.                                                                  *)
(***************************************************************************)
\* a query suffix that ignores the flag
force_query_never(force) == ""

\* ('', '?force=true')[int(force)]
force_query(force) == IF force THEN "?force=true" ELSE ""

\* @validate_input(dict, ["name"])
create_datasource(t, data) ==
    LET e == validate_input("dict", <<"name">>, data)
        o == Operation("create_datasource", "POST", "datasources/", data, FALSE)
    IN  /\ Begin(t)
        /\ IF e # NoExc THEN RaiseEarly(t, o, e) ELSE EnterBridge(t, o)

\* @validate_input(dict, ["name", "unit", "icon"])
create_variable(t, data) ==
    LET e == validate_input("dict", <<"name", "unit", "icon">>, data)
        o == Operation("create_variable", "POST",
                       "datasources/" \o DatasourceId \o "/variables", data, FALSE)
    IN  /\ Begin(t)
        /\ IF e # NoExc THEN RaiseEarly(t, o, e) ELSE EnterBridge(t, o)

\* a test without the default of data.get: an absent timestamp fails it
timestamp_is_int_no_default(d) == "timestamp" \in DOMAIN d /\ d["timestamp"] = "int"

\* isinstance(data.get('timestamp', 0), int)
timestamp_is_int(d) == "timestamp" \in DOMAIN d => d["timestamp"] = "int"

\* @validate_input(dict, ["value"])
save_value(t, data) ==
    LET e == validate_input("dict", <<"value">>, data)
        o == Operation("save_value", "POST",
                       "variables/" \o VariableId \o "/values", data, FALSE)
    IN  /\ Begin(t)
        /\ IF e # NoExc THEN RaiseEarly(t, o, e)
           ELSE IF ~timestamp_is_int(data.dict)
           THEN RaiseEarly(t, o, Exc("UbidotsInvalidInputError",
                                     "Key \"timestamp\" must point to an int value."))
           ELSE EnterBridge(t, o)

\* all(isinstance(e['timestamp'], int) for e in data): the elements are
\* visited in order up to the first whose timestamp is not an int; the
\* subscript e['timestamp'] raises KeyError on an element without the key
timestamps_check(list) ==
    LET bad == {n \in 1..Len(list) :
                    "timestamp" \notin DOMAIN list[n] \/ list[n]["timestamp"] # "int"}
        first == CHOOSE n \in bad : \A m \in bad : n <= m
    IN  IF bad = {} THEN NoExc
        ELSE IF "timestamp" \notin DOMAIN list[first] THEN Exc("KeyError", "'timestamp'")
        ELSE Exc("UbidotsInvalidInputError",
                 "Key \"timestamp\" must point to an int value")

\* @validate_input(list, ["key", "timestamp"])
save_values(t, data, force) ==
    LET e == validate_input("list", <<"key", "timestamp">>, data)
        o == Operation("save_values", "POST",
                       "variables/" \o VariableId \o "/values" \o force_query(force),
                       data, force)
    IN  /\ Begin(t)
        /\ IF e # NoExc THEN RaiseEarly(t, o, e)
           ELSE IF timestamps_check(data.list) # NoExc
           THEN RaiseEarly(t, o, timestamps_check(data.list))
           ELSE EnterBridge(t, o)

\* @validate_input(list, ["variable", "value"])
save_collection(t, data, force) ==
    LET e == validate_input("list", <<"variable", "value">>, data)
        o == Operation("save_collection", "POST",
                       "collections/values" \o force_query(force), data, force)
    IN  /\ Begin(t)
        /\ IF e # NoExc THEN RaiseEarly(t, o, e) ELSE EnterBridge(t, o)

(***************************************************************************)
(* The fetching operations of ApiClient.                                   *)
(***************************************************************************)
\* the operation enters get_with_url
EnterUrl(t, o) ==
    /\ op' = [op EXCEPT ![t] = o]
    /\ result' = [result EXCEPT ![t] = NoResult]
    /\ pc' = [pc EXCEPT ![t] = "url"]

get_with_url(t, url) ==
    /\ Begin(t)
    /\ EnterUrl(t, Operation("get_with_url", "GET", url, NoData, FALSE))

\* get_datasource(id=None, url=None) called with the keywords of kwargs, each
\* mapped to the type of its (non-empty) value: the exception raised before
\* any fetch, if any
get_datasource_check(kwargs) ==
    IF "id" \notin DOMAIN kwargs /\ "url" \notin DOMAIN kwargs
    THEN Exc("UbidotsInvalidInputError", "id or url required")
    ELSE IF "id" \in DOMAIN kwargs
    THEN IF kwargs["id"] # "str"
         THEN Exc("UbidotsInvalidInputError", "Argument \"id\" must be a string.")
         ELSE NoExc
    ELSE \* elif url: the test is made on id, which is None here
         IF ~("id" \in DOMAIN kwargs /\ kwargs["id"] = "str")
         THEN Exc("UbidotsInvalidInputError", "Argument \"url\" must be a string.")
         ELSE NoExc

get_datasource(t, kwargs) ==
    LET e == get_datasource_check(kwargs)
        by_id == "id" \in DOMAIN kwargs
        o == Operation("get_datasource", "GET",
                       IF by_id THEN "datasources/" \o DatasourceId ELSE DatasourceUrl,
                       PyDict(kwargs), FALSE)
    IN  /\ Begin(t)
        /\ IF e # NoExc THEN RaiseEarly(t, o, e)
           ELSE IF by_id THEN EnterBridge(t, o) ELSE EnterUrl(t, o)

get_variable(t, id) ==
    /\ Begin(t)
    /\ EnterBridge(t, Operation("get_variable", "GET", "variables/" \o id, NoData, FALSE))

get_variables(t) ==
    /\ Begin(t)
    /\ EnterBridge(t, Operation("get_variables", "GET", "variables", NoData, FALSE))

(***************************************************************************)
(* The bridge method returns its response to the operation that called it. *)
(***************************************************************************)
BridgeOps == {"get", "post", "delete"}

\* ApiObject.__init__ on a decoded body: raw.items() fails on a list
ApiObject_error(text) ==
    IF IsArray(text) THEN Exc("AttributeError", "'list' object has no attribute 'items'")
    ELSE NoExc

\* what the operation builds from the decoded object
Materialize(name, raw) ==
    CASE name \in {"create_datasource", "get_datasource"} ->
            Value("Datasource", raw, <<>>, EmptyDict)
      [] name = "create_variable" ->
            Value("Variable", raw, <<>>, Dict1("id", DatasourceId))
      [] name = "get_variable" ->
            Value("Variable", raw, <<>>, EmptyDict)
      [] OTHER -> Value("dict", raw, <<>>, EmptyDict)

\* Variable._get_datasource without a datasource keyword: the exception it
\* raises before any fetch, if any (self.datasource is the attribute set
\* from the raw payload)
_get_datasource_error(raw) ==
    IF "datasource.url" \notin DOMAIN raw
    THEN Exc("AttributeError", "'Variable' object has no attribute 'datasource'")
    ELSE get_datasource_check(Dict1("url", "str"))

\* the exception with which the operation ends after the bridge has
\* returned response r, if any
finish_error(name, r) ==
    IF name \in BridgeOps \cup {"get_with_url"} THEN NoExc
    ELSE IF ~IsJson(r.text) THEN ValueError
    ELSE IF name = "get_variables"
    THEN Exc("AttributeError",
             "'ApiClient' object has no attribute 'transform_to_variables_objects'")
    ELSE IF name \in {"create_datasource", "get_datasource", "create_variable", "get_variable"}
    THEN IF ApiObject_error(r.text) # NoExc THEN ApiObject_error(r.text)
         ELSE IF name = "get_variable" THEN _get_datasource_error(json(r.text))
         ELSE NoExc
    ELSE NoExc

\* the value with which the operation returns
finish_value(name, r) ==
    IF name \in BridgeOps \cup {"get_with_url"} THEN NoValue
    ELSE IF IsArray(r.text) THEN Value("list", EmptyDict, json_list(r.text), EmptyDict)
    ELSE Materialize(name, json(r.text))

\* a Variable is being built and its data source is being fetched
Resolving(t) == op[t].name = "get_variable" /\ result[t].kind = "return"

Return(t) ==
    /\ pc[t] = "return"
    /\ IF Resolving(t)
       THEN \* datasource = self.api.get_datasource(url = ...) has its response
            LET e == IF ~IsJson(response[t].text) THEN ValueError
                     ELSE ApiObject_error(response[t].text)
                v == result[t].value
            IN  /\ result' = [result EXCEPT ![t] =
                        IF e # NoExc THEN Raised(e)
                        ELSE Returned(result[t].response,
                                      Value(v.type, v.raw, <<>>, json(response[t].text)))]
                /\ pc' = [pc EXCEPT ![t] = "done"]
       ELSE LET e == finish_error(op[t].name, response[t]) IN
            /\ result' = [result EXCEPT ![t] =
                    IF e # NoExc THEN Raised(e)
                    ELSE Returned(response[t], finish_value(op[t].name, response[t]))]
            \* a Variable built without a datasource goes on to fetch it
            /\ pc' = [pc EXCEPT ![t] =
                    IF e = NoExc /\ op[t].name = "get_variable" THEN "url" ELSE "done"]
    /\ UNCHANGED <<bridge, log, op, i, headers, response>>

\* get_with_url: the url is fetched with the session header; no decorator
\* wraps the call
SendUrl(t) ==
    /\ pc[t] = "url"
    /\ \E r \in Responses :
        LET url == IF Resolving(t) THEN result[t].value.raw["datasource.url"]
                   ELSE op[t].path
            hdrs == _prepare_headers(<<_token_header>>)
        IN  /\ headers' = [headers EXCEPT ![t] = hdrs]
            /\ log' = Append(log, Call(t, "GET", url, hdrs, r))
            /\ response' = [response EXCEPT ![t] = r]
    /\ pc' = [pc EXCEPT ![t] = "return"]
    /\ UNCHANGED <<bridge, op, i, result>>

\* the operation has ended and its caller has the outcome: the frames of the
\* call are gone, and the transport's record of it is cleared before the
\* caller's next operation
Collect(t) ==
    /\ pc[t] = "done"
    /\ pc' = [pc EXCEPT ![t] = "idle"]
    /\ op' = [op EXCEPT ![t] = NoOp]
    /\ i' = [i EXCEPT ![t] = 0]
    /\ headers' = [headers EXCEPT ![t] = EmptyDict]
    /\ response' = [response EXCEPT ![t] = NoResponse]
    /\ result' = [result EXCEPT ![t] = NoResult]
    /\ log' = SelectSeq(log, LAMBDA e : e.by # t)
    /\ UNCHANGED bridge

(***************************************************************************)
(* Specification: one caller.                                              *)
(***************************************************************************)
\* the first arguments tried on each guarded operation
create_datasource_args == ArgsOver("dict", {"name"})
create_variable_args == ArgsOver("dict", {"name", "unit", "icon"})
save_value_args == ArgsOver("dict", {"value", "timestamp"})
save_values_args == ArgsOver("list", {"key", "timestamp"})
save_collection_args == ArgsOver("list", {"variable", "value"})
\* the keyword arguments tried on get_datasource
get_datasource_kwargs == DictsOver({"id", "url"})

Step(t) == PrepareHeaders(t) \/ Send(t) \/ initialize(t) \/ Return(t) \/ SendUrl(t)

Next ==
    \/ \E path \in BridgePaths : get(Main, path)
    \/ \E path \in BridgePaths : post(Main, path, SomeData)
    \/ \E path \in BridgePaths : delete(Main, path)
    \/ \E data \in create_datasource_args : create_datasource(Main, data)
    \/ \E data \in create_variable_args : create_variable(Main, data)
    \/ \E data \in save_value_args : save_value(Main, data)
    \/ \E data \in save_values_args, force \in BOOLEAN :
            save_values(Main, data, force)
    \/ \E data \in save_collection_args, force \in BOOLEAN :
            save_collection(Main, data, force)
    \/ get_with_url(Main, DatasourceUrl)
    \/ \E kwargs \in get_datasource_kwargs : get_datasource(Main, kwargs)
    \/ get_variable(Main, VariableId)
    \/ get_variables(Main)
    \/ PrepareHeaders(Main)
    \/ Send(Main)
    \/ initialize(Main)
    \/ Return(Main)
    \/ SendUrl(Main)
    \/ Collect(Main)

Spec == Init /\ [][Next]_vars

\* an operation that has started runs to its end
LiveSpec == Spec /\ WF_vars(Step(Main))

(***************************************************************************)
(* Specification: one caller, from the construction of the bridge.  Init   *)
(* is the state inside __init__ after its assignments, before the call of  *)
(* self.initialize(): no token, and no _token_header attribute yet.        *)
(***************************************************************************)
None == "None"

InitNew ==
    /\ _token = None
    /\ _token_header = EmptyDict
    /\ _apikey = "apikey"
    /\ _apikey_header = Dict1("X-UBIDOTS-APIKEY", _apikey)
    /\ log = <<>>
    /\ pc = [t \in Threads |-> IF t = Main THEN "new" ELSE "idle"]
    /\ op = [t \in Threads |-> NoOp]
    /\ i = [t \in Threads |-> 0]
    /\ headers = [t \in Threads |-> EmptyDict]
    /\ response = [t \in Threads |-> NoResponse]
    /\ result = [t \in Threads |-> NoResult]

NextNew ==
    \/ __init__(Main)
    \/ Next

SpecNew == InitNew /\ [][NextNew]_vars

(***************************************************************************)
(* Specification: two threads, each making one call of get on one bridge.  *)
(* Nothing in the source orders the steps of two threads, so every         *)
(* interleaving of their steps is a behaviour.  The server answers         *)
(* resource calls with 200 or 401 and grants every exchange.               *)
(***************************************************************************)
ResourceAnswers == [status_code : {200, 401}, text : {PlainBody}]
Grants == [status_code : {200}, text : {TokenDoc(tok) : tok \in Tokens}]

NextConc ==
    \E t \in Threads :
        \/ \E path \in BridgePaths : get(t, path)
        \/ PrepareHeaders(t)
        \/ \E r \in ResourceAnswers : Answer(t, r)
        \/ \E a \in Grants : Exchange(t, a)
        \/ Return(t)

SpecConc == Init /\ [][NextConc]_vars

TypeOK ==
    /\ _token \in Tokens \cup {None}
    /\ pc \in [Threads -> {"new", "failed", "idle", "prepare", "send", "initialize",
                           "return", "url", "done"}]
    /\ i \in [Threads -> 0..number_of_tries]
    /\ log \in Seq([by : Threads, method : {"GET", "POST", "DELETE"}, url : STRING,
                    headers : [{"X-AUTH-TOKEN", "content-type"} -> STRING]
                                \cup [{"X-UBIDOTS-APIKEY", "content-type"} -> STRING],
                    held : Tokens \cup {None}, status : StatusCodes, issued : Tokens \cup {""}])
    /\ \A t \in Threads : result[t].kind \in {"none", "raise", "return"}

(***************************************************************************)
(* Vocabulary of the properties.                                           *)
(***************************************************************************)
Own(t) == SelectSeq(log, LAMBDA e : e.by = t)
AuthCalls(t) == SelectSeq(Own(t), LAMBDA e : e.url = AuthUrl)
ResourceCalls(t) == SelectSeq(Own(t), LAMBDA e : e.url # AuthUrl)
LastCall(t) == Own(t)[Len(Own(t))]

\* thread t's operation has ended, by a return or by a raise
Done(t) == pc[t] = "done"
\* thread t called get, post or delete of the bridge itself
Direct(t) == op[t].name \in BridgeOps

Rejected == {401, 403}
\* an API-key exchange that was answered 200 with a token
Granted(e) == e.url = AuthUrl /\ e.status = 200 /\ e.issued # ""

InvalidInput(r) == r.kind = "raise" /\ r.exc.type = "UbidotsInvalidInputError"

(***************************************************************************)
(* C1: for get, post and delete, when the first resource call is answered  *)
(* 401 or 403, the re-authentication exchange is granted and the second    *)
(* resource call is answered 200, the operation returns that response and  *)
(* the transport saw exactly one exchange and exactly two resource calls.  *)
(***************************************************************************)
C1_RetryAfterReauthSucceeds ==
    \A t \in Threads :
        LET L == Own(t) IN
        (/\ Done(t) /\ Direct(t)
         /\ Len(L) >= 1 /\ L[1].url # AuthUrl /\ L[1].status \in Rejected
         /\ Len(L) >= 2 => Granted(L[2])
         /\ Len(L) >= 3 => (L[3].url # AuthUrl /\ L[3].status = 200))
        => /\ result[t].kind = "return"
           /\ result[t].response.status_code = 200
           /\ Len(AuthCalls(t)) = 1
           /\ Len(ResourceCalls(t)) = 2

C1_Witness ==
    LET L == Own(Main) IN
    /\ Done(Main) /\ op[Main].name = "delete"
    /\ Len(L) = 3 /\ L[1].status = 401 /\ Granted(L[2]) /\ L[3].status = 200
    /\ result[Main].kind = "return"

(***************************************************************************)
(* C2: for get, post and delete, when the first and the retried resource   *)
(* call are both answered 401 or 403, the operation raises an error; it    *)
(* does not return the rejected response.                                  *)
(***************************************************************************)
C2_RejectedTwiceRaises ==
    \A t \in Threads :
        LET R == ResourceCalls(t) IN
        (/\ Done(t) /\ Direct(t)
         /\ Len(R) = 2 /\ R[1].status \in Rejected /\ R[2].status \in Rejected)
        => result[t].kind = "raise"

(***************************************************************************)
(* C3: whatever the transport answers, one get, post or delete makes at    *)
(* most two resource calls, and the operation ends.                        *)
(***************************************************************************)
AtMostTwoResourceCalls == \A t \in Threads : Len(ResourceCalls(t)) <= 2

C3_BoundedRetry ==
    /\ []AtMostTwoResourceCalls
    /\ \A t \in Threads : (pc[t] \notin {"idle", "done"}) ~> (pc[t] = "done")

C3_Witness ==
    LET R == ResourceCalls(Main) IN
    /\ Done(Main) /\ Direct(Main)
    /\ Len(R) = 2 /\ R[1].status \in Rejected /\ R[2].status \in Rejected

(***************************************************************************)
(* C4: one get, post or delete performs the API-key exchange at most once. *)
(***************************************************************************)
C4_AtMostOneReauth == \A t \in Threads : Len(AuthCalls(t)) <= 1

(***************************************************************************)
(* C5: with one caller, every resource call carries in X-AUTH-TOKEN the    *)
(* session token the bridge holds when the call is sent; the call retried  *)
(* after a granted exchange carries the token that exchange issued.        *)
(***************************************************************************)
SessionToken(e) ==
    IF "X-AUTH-TOKEN" \in DOMAIN e.headers THEN e.headers["X-AUTH-TOKEN"] ELSE ""

C5_CallsCarryCurrentToken ==
    /\ \A k \in 1..Len(log) :
            log[k].url # AuthUrl => SessionToken(log[k]) = log[k].held
    /\ \A k \in 1..(Len(log) - 1) :
            (log[k].url = AuthUrl /\ log[k + 1].url # AuthUrl)
                => SessionToken(log[k + 1]) = log[k].issued

C5_Witness ==
    /\ Len(log) >= 3
    /\ log[1].status \in Rejected /\ Granted(log[2]) /\ log[3].url # AuthUrl
    /\ SessionToken(log[3]) = log[2].issued
    /\ SessionToken(log[3]) # SessionToken(log[1])

(***************************************************************************)
(* C6: a resource response with status 400 raises UbidotsError400 whose    *)
(* message contains the response body; one with status 500 raises          *)
(* UbidotsError500 with a fixed message that contains none of the body.    *)
(***************************************************************************)
\* the operation of t ended right after a resource call of get, post or
\* delete answered `status`
EndedOn(t, status) ==
    /\ Done(t) /\ Own(t) # <<>>
    /\ op[t].name # "get_with_url"
    /\ LastCall(t).url # AuthUrl /\ LastCall(t).status = status
    /\ response[t].status_code = status

C6_TypedServerErrors ==
    \A t \in Threads :
        /\ EndedOn(t, 400) =>
            /\ result[t].kind = "raise"
            /\ result[t].exc.type = "UbidotsError400"
            /\ Contains(result[t].exc.message, response[t].text)
        /\ EndedOn(t, 500) =>
            /\ result[t].kind = "raise"
            /\ result[t].exc.type = "UbidotsError500"
            /\ result[t].exc.message = "An Internal Server Error Occurred."
            /\ ~Contains(result[t].exc.message, response[t].text)

C6_Witness ==
    /\ EndedOn(Main, 400) /\ response[Main].text = PlainBody
    /\ op[Main].name = "get"
    /\ result[Main].exc.message = "Your request is invalid:\n  bad field"

(***************************************************************************)
(* C7: for get, post and delete, a response whose status is not 2xx and is *)
(* none of 400, 401, 403, 500 raises UbidotsError with the raw body as its *)
(* message; it is not returned to the caller.                              *)
(***************************************************************************)
OtherErrorStatus(status) ==
    /\ ~(200 <= status /\ status <= 299)
    /\ status \notin {400, 401, 403, 500}

C7_OtherStatusRaisesGeneric ==
    \A t \in Threads :
        (/\ Done(t) /\ Direct(t) /\ Own(t) # <<>>
         /\ LastCall(t).url # AuthUrl /\ OtherErrorStatus(LastCall(t).status))
        => /\ result[t].kind = "raise"
           /\ result[t].exc = Exc("UbidotsError", response[t].text)

(***************************************************************************)
(* C8: a guarded operation called with a first argument that is not of the *)
(* declared type raises UbidotsInvalidInputError at once: the transport    *)
(* sees no call and the session token and header stay as they were.        *)
(***************************************************************************)
DeclaredType(name) ==
    CASE name \in {"create_datasource", "create_variable", "save_value"} -> "dict"
      [] name \in {"save_values", "save_collection"} -> "list"
      [] OTHER -> ""
GuardedOps ==
    {"create_datasource", "create_variable", "save_value", "save_values", "save_collection"}

\* this step is thread t calling a guarded operation with a wrong-shaped argument
CallsWithWrongShape(t) ==
    /\ pc[t] = "idle" /\ pc'[t] # "idle"
    /\ op'[t].name \in GuardedOps
    /\ op'[t].data.type # DeclaredType(op'[t].name)

C8_WrongShapeRaisesBeforeTransport ==
    [][CallsWithWrongShape(Main) =>
            /\ pc'[Main] = "done"
            /\ InvalidInput(result'[Main])
            /\ Own(Main)' = <<>>
            /\ _token' = _token /\ _token_header' = _token_header]_vars

C8_Witness ==
    /\ Done(Main) /\ op[Main].name = "save_collection"
    /\ op[Main].data.type = "int"
    /\ InvalidInput(result[Main]) /\ log = <<>>

(***************************************************************************)
(* C9: an operation guarded as a single mapping, called with a mapping     *)
(* that lacks a required key, raises UbidotsInvalidInputError whose        *)
(* message names a missing key, and the transport sees no call.            *)
(***************************************************************************)
RequiredKeys(name) ==
    CASE name = "create_datasource" -> {"name"}
      [] name = "create_variable" -> {"name", "unit", "icon"}
      [] name = "save_value" -> {"value"}
      [] name = "save_values" -> {"key", "timestamp"}
      [] name = "save_collection" -> {"variable", "value"}
      [] OTHER -> {}

C9_MissingKeyRaises ==
    \A t \in Threads :
        LET missing == RequiredKeys(op[t].name) \ DOMAIN op[t].data.dict IN
        (/\ DeclaredType(op[t].name) = "dict" /\ op[t].data.type = "dict"
         /\ missing # {})
        => /\ pc[t] = "done"
           /\ InvalidInput(result[t])
           /\ \E k \in missing : result[t].exc.message = "Key \"" \o k \o "\" is missing"
           /\ Own(t) = <<>>

C9_Witness ==
    /\ op[Main].name = "create_variable" /\ op[Main].data.type = "dict"
    /\ DOMAIN op[Main].data.dict = {"name", "unit"}
    /\ result[Main] = Raised(Exc("UbidotsInvalidInputError", "Key \"icon\" is missing"))
    /\ log = <<>>

(***************************************************************************)
(* C10: an operation guarded as a sequence of mappings, called with a list *)
(* in which an element at any position lacks a required key, raises        *)
(* UbidotsInvalidInputError and the transport sees no call.                *)
(***************************************************************************)
C10_EveryElementChecked ==
    \A t \in Threads :
        LET l == op[t].data.list IN
        (/\ DeclaredType(op[t].name) = "list" /\ op[t].data.type = "list"
         /\ \E n \in 1..Len(l) : ~(RequiredKeys(op[t].name) \subseteq DOMAIN l[n]))
        => /\ pc[t] = "done"
           /\ InvalidInput(result[t])
           /\ Own(t) = <<>>

C10_Witness ==
    LET l == op[Main].data.list IN
    /\ op[Main].name = "save_collection" /\ Len(l) = 2
    /\ DOMAIN l[1] = {"variable", "value"} /\ DOMAIN l[2] = {"variable"}
    /\ result[Main] = Raised(Exc("UbidotsInvalidInputError", "Key \"value\" is missing"))
    /\ log = <<>>

(***************************************************************************)
(* C11: Variable.save_value with a mapping that has the key value: a       *)
(* timestamp that is present and is not an int raises                      *)
(* UbidotsInvalidInputError and the transport sees no call; with an int    *)
(* timestamp or none, validation passes and the transport sees the POST to *)
(* variables/{id}/values and no other resource.                            *)
(***************************************************************************)
SaveValueUrl == BASE_URL \o "variables/" \o VariableId \o "/values"

C11_TimestampOfSaveValue ==
    \A t \in Threads :
        LET d == op[t].data.dict IN
        (op[t].name = "save_value" /\ op[t].data.type = "dict" /\ "value" \in DOMAIN d)
        => IF "timestamp" \in DOMAIN d /\ d["timestamp"] # "int"
           THEN /\ pc[t] = "done"
                /\ InvalidInput(result[t])
                /\ Own(t) = <<>>
           ELSE /\ ~InvalidInput(result[t])
                /\ pc[t] \in {"initialize", "return", "done"} => ResourceCalls(t) # <<>>
                /\ \A k \in 1..Len(ResourceCalls(t)) :
                        /\ ResourceCalls(t)[k].method = "POST"
                        /\ ResourceCalls(t)[k].url = SaveValueUrl

C11_Witness ==
    /\ Done(Main) /\ op[Main].name = "save_value"
    /\ DOMAIN op[Main].data.dict = {"value", "timestamp"}
    /\ op[Main].data.dict["timestamp"] = "int"
    /\ Len(Own(Main)) = 1 /\ Own(Main)[1].url = SaveValueUrl
    /\ result[Main].kind = "return"

(***************************************************************************)
(* C12: ApiClient.get_datasource called with neither id nor url raises     *)
(* UbidotsInvalidInputError without a transport call; called with only a   *)
(* string id it fetches datasources/{id} and returns a Datasource; called  *)
(* with only a string url it fetches that url once and returns a           *)
(* Datasource built from the response.                                     *)
(***************************************************************************)
\* the operation of t returned a Datasource built from the body it fetched
ReturnedDatasource(t) ==
    /\ result[t].kind = "return"
    /\ result[t].value.type = "Datasource"
    /\ result[t].value.raw = json(response[t].text)

C12_GetDatasourceByIdOrUrl ==
    \A t \in Threads :
        LET kwargs == op[t].data.dict
            R == ResourceCalls(t)
        IN
        op[t].name = "get_datasource" =>
            /\ kwargs = EmptyDict =>
                    (pc[t] = "done" /\ InvalidInput(result[t]) /\ Own(t) = <<>>)
            /\ kwargs = Dict1("id", "str") =>
                    /\ ~InvalidInput(result[t])
                    /\ \A k \in 1..Len(R) : R[k].url = BASE_URL \o "datasources/" \o DatasourceId
                    /\ (Done(t) /\ LastCall(t).status = 200 /\ response[t].text = VariableDoc)
                            => ReturnedDatasource(t)
            /\ kwargs = Dict1("url", "str") =>
                    /\ ~InvalidInput(result[t])
                    /\ Done(t) => (Len(Own(t)) = 1 /\ Own(t)[1].url = DatasourceUrl)
                    /\ (Done(t) /\ LastCall(t).status = 200 /\ response[t].text = VariableDoc)
                            => ReturnedDatasource(t)

(***************************************************************************)
(* C13: building a Variable without a data source, as get_variable does,   *)
(* makes exactly one more fetch, to the url under the payload's datasource *)
(* field; when that fetch is answered 2xx the Variable's datasource        *)
(* relation carries the fetched attributes; the construction does not fail *)
(* with UbidotsInvalidInputError.                                          *)
(***************************************************************************)
VariableUrl == BASE_URL \o "variables/" \o VariableId

\* get_variable of t has received the variable's payload with status 200
GotVariablePayload(t) ==
    /\ Done(t) /\ op[t].name = "get_variable"
    /\ \/ result[t].kind = "return" /\ result[t].value.raw = json(VariableDoc)
       \/ /\ result[t].kind = "raise"
          /\ LastCall(t).url = VariableUrl /\ LastCall(t).status = 200
          /\ response[t].text = VariableDoc

C13_VariableResolvesItsDatasource ==
    \A t \in Threads :
        GotVariablePayload(t) =>
            LET F == SelectSeq(Own(t), LAMBDA e : e.url = DatasourceUrl) IN
            /\ ~InvalidInput(result[t])
            /\ Len(F) = 1
            /\ (F[1].status = 200 /\ response[t].text = VariableDoc)
                    => /\ result[t].kind = "return"
                       /\ result[t].value.type = "Variable"
                       /\ result[t].value.datasource = json(response[t].text)

(***************************************************************************)
(* C14: ApiClient.get_variables, when the fetch of `variables` is answered *)
(* 2xx with an array of n raw variables, returns n Variables in the order  *)
(* of the array (none for an empty array) and does not end in an error.    *)
(***************************************************************************)
C14_GetVariablesReturnsAll ==
    \A t \in Threads :
        (/\ Done(t) /\ op[t].name = "get_variables"
         /\ ResourceCalls(t) # <<>>
         /\ ResourceCalls(t)[Len(ResourceCalls(t))].url = BASE_URL \o "variables"
         /\ ResourceCalls(t)[Len(ResourceCalls(t))].status = 200
         /\ IsArray(response[t].text))
        => /\ result[t].kind = "return"
           /\ result[t].value.type = "list"
           /\ Len(result[t].value.list) = Len(json_list(response[t].text))
           /\ \A n \in 1..Len(result[t].value.list) :
                    result[t].value.list[n]["id"] = json_list(response[t].text)[n]["id"]

(***************************************************************************)
(* C15: for get, post and delete, when the first resource call is answered *)
(* 400 or 500 the typed error is raised at once: the operation has ended,  *)
(* the transport saw that one call only (no exchange, no second resource   *)
(* call) and the session token and header are the ones held when the call  *)
(* was sent.                                                               *)
(***************************************************************************)
TypeFor(status) ==
    IF status = 500 THEN "UbidotsError500"
    ELSE IF status = 400 THEN "UbidotsError400" ELSE "UbidotsError"

FirstAnswered(t, statuses) ==
    /\ Direct(t) /\ Own(t) # <<>>
    /\ Own(t)[1].url # AuthUrl /\ Own(t)[1].status \in statuses

C15_ServerErrorRaisedAtOnce ==
    \A t \in Threads :
        FirstAnswered(t, {400, 500}) =>
            /\ Done(t)
            /\ result[t].kind = "raise"
            /\ result[t].exc.type = TypeFor(Own(t)[1].status)
            /\ Len(Own(t)) = 1
            /\ _token = Own(t)[1].held
            /\ _token_header = Dict1("X-AUTH-TOKEN", Own(t)[1].held)

C15_Witness ==
    /\ FirstAnswered(Main, {500}) /\ op[Main].name = "delete"
    /\ Done(Main) /\ result[Main].exc.type = "UbidotsError500"
    /\ Len(log) = 1 /\ _token = log[1].held

(***************************************************************************)
(* C17: for save_values and save_collection, every url sent to the         *)
(* transport ends with ?force=true when the caller passed force=true and   *)
(* holds no force parameter when force is false or omitted.                *)
(***************************************************************************)
EndsWith(s, suffix) ==
    Len(s) >= Len(suffix) /\ SubSeq(s, Len(s) - Len(suffix) + 1, Len(s)) = suffix

ForcedOps == {"save_values", "save_collection"}

C17_ForceQueryIffForce ==
    \A t \in Threads :
        op[t].name \in ForcedOps =>
            \A k \in 1..Len(ResourceCalls(t)) :
                LET url == ResourceCalls(t)[k].url IN
                /\ EndsWith(url, "?force=true") <=> op[t].force
                /\ ~op[t].force => ~Contains(url, "force")

C17_Witness ==
    /\ Done(Main) /\ op[Main].name = "save_collection" /\ op[Main].force
    /\ Len(Own(Main)) = 1
    /\ Own(Main)[1].url = BASE_URL \o "collections/values?force=true"
    /\ result[Main].kind = "return"

(***************************************************************************)
(* C19: for get, post and delete, when the first resource call is answered *)
(* 401 or 403 and the re-authentication exchange is answered 400, 500, 401 *)
(* or 403, the operation raises the error of the exchange, the transport   *)
(* saw no call after the exchange, and the session token and header are    *)
(* the ones held before the operation.                                     *)
(***************************************************************************)
ExchangeRefused(t) ==
    /\ FirstAnswered(t, Rejected)
    /\ Len(Own(t)) >= 2
    /\ Own(t)[2].url = AuthUrl /\ Own(t)[2].status \in {400, 500, 401, 403}

C19_RefusedExchangeRaises ==
    \A t \in Threads :
        ExchangeRefused(t) =>
            /\ Done(t)
            /\ result[t].kind = "raise"
            /\ result[t].exc.type = TypeFor(Own(t)[2].status)
            /\ Len(Own(t)) = 2
            /\ _token = Own(t)[1].held
            /\ _token_header = Dict1("X-AUTH-TOKEN", Own(t)[1].held)

C19_Witness ==
    /\ ExchangeRefused(Main) /\ op[Main].name = "post"
    /\ Own(Main)[1].status = 401 /\ Own(Main)[2].status = 403
    /\ Done(Main) /\ result[Main].exc = Exc("UbidotsError", TokenDoc("tok2"))
    /\ _token = "tok1"

(***************************************************************************)
(* C16: constructing a bridge makes exactly one API-key exchange, a POST   *)
(* to auth/token that carries X-UBIDOTS-APIKEY and no session header, and  *)
(* no resource call is sent before it; when the exchange is answered 400,  *)
(* 500, 401 or 403 the construction raises, nothing more is sent and no    *)
(* session token is installed.                                             *)
(***************************************************************************)
\* the transport's record e is an API-key exchange as __init__ sends it
ApikeyExchange(e) ==
    /\ e.method = "POST" /\ e.url = AuthUrl
    /\ "X-UBIDOTS-APIKEY" \in DOMAIN e.headers
    /\ e.headers["X-UBIDOTS-APIKEY"] = _apikey
    /\ "X-AUTH-TOKEN" \notin DOMAIN e.headers

Constructing(t) == pc[t] = "new"
Failed(t) == pc[t] = "failed"

C16_ConstructionState ==
    /\ Constructing(Main) => (log = <<>> /\ _token = None)
    \* every call sent while the bridge held no token is the one exchange
    /\ \A k \in 1..Len(log) :
            log[k].held = None => (k = 1 /\ ApikeyExchange(log[k]))
    /\ \A k \in 1..Len(log) :
            log[k].url # AuthUrl => (~Constructing(Main) /\ ~Failed(Main) /\ _token # None)
    /\ (log # <<>> /\ log[1].held = None /\ log[1].status \in {400, 500, 401, 403})
            => /\ Failed(Main)
               /\ result[Main].kind = "raise"
               /\ result[Main].exc.type = TypeFor(log[1].status)
               /\ Len(log) = 1
               /\ _token = None /\ _token_header = EmptyDict

C16_ConstructionStep ==
    /\ Constructing(Main) => (Len(log') = 1 /\ ApikeyExchange(log'[1]) /\ ~Constructing(Main)')
    /\ ~Failed(Main)

C16_OneExchangeAtConstruction ==
    [](C16_ConstructionState) /\ [][C16_ConstructionStep]_vars

C16_Witness ==
    /\ Failed(Main) /\ Len(log) = 1 /\ ApikeyExchange(log[1])
    /\ log[1].status = 401 /\ log[1].issued = "tok1"
    /\ result[Main].exc = Exc("UbidotsError", TokenDoc("tok1"))
    /\ _token = None

(***************************************************************************)
(* C20: with one caller, once the bridge is constructed the session header *)
(* holds the stored token under X-AUTH-TOKEN, the API key is the one given *)
(* at construction, no resource call carries X-UBIDOTS-APIKEY, and the     *)
(* stored token changes exactly when an API-key exchange is accepted, to   *)
(* the token that exchange returned.                                       *)
(***************************************************************************)
Constructed(t) == ~Constructing(t) /\ ~Failed(t)

\* an exchange whose answer the bridge accepts: not one of the statuses the
\* decorator of _post_with_apikey raises on, and a body holding a token
Accepted(e) == e.url = AuthUrl /\ e.status \notin {400, 500, 401, 403} /\ e.issued # ""

C20_SessionState ==
    /\ Constructed(Main) =>
            (_token \in Tokens /\ _token_header = Dict1("X-AUTH-TOKEN", _token))
    /\ _apikey = "apikey" /\ _apikey_header = Dict1("X-UBIDOTS-APIKEY", _apikey)
    /\ \A k \in 1..Len(log) :
            log[k].url # AuthUrl => "X-UBIDOTS-APIKEY" \notin DOMAIN log[k].headers

\* the step sends one call more, and that call is an accepted exchange
AcceptsExchange == Len(log') = Len(log) + 1 /\ Accepted(log'[Len(log')])

C20_SessionStep ==
    /\ _token' # _token => AcceptsExchange
    /\ AcceptsExchange => _token' = log'[Len(log')].issued

C20_SessionTokenIsLatestIssued ==
    [](C20_SessionState) /\ [][C20_SessionStep]_vars

C20_Witness ==
    /\ Done(Main) /\ op[Main].name = "get"
    /\ Len(log) = 3 /\ Accepted(log[2])
    /\ log[1].held = "tok1" /\ log[2].issued = "tok2"
    /\ _token = "tok2" /\ _token_header = Dict1("X-AUTH-TOKEN", "tok2")
    /\ log[3].status = 500

(***************************************************************************)
(* C18: with two callers on one bridge, a caller whose headers hold a      *)
(* token that the bridge has since replaced can still send its resource    *)
(* call: nothing between the construction of the headers and the call      *)
(* waits for, or tests, the bridge's token.  The witness is a state where  *)
(* such a call has been sent.                                              *)
(***************************************************************************)
\* t has built its headers and the bridge's token has been replaced since
HoldsStaleHeaders(t) ==
    pc[t] = "send" /\ headers[t]["X-AUTH-TOKEN"] # _token

C18_StaleCallNotExcluded ==
    \A t \in Threads :
        HoldsStaleHeaders(t) => ENABLED (\E r \in ResourceAnswers : Answer(t, r))

\* Main built its headers, the other caller was rejected and installed a new
\* token, and Main's call went out with the old one
C18_Witness ==
    /\ Len(log) = 3
    /\ log[1].by # Main /\ log[1].url # AuthUrl /\ log[1].status = 401
    /\ log[2].by # Main /\ Accepted(log[2]) /\ log[2].issued # log[1].held
    /\ log[3].by = Main /\ log[3].url # AuthUrl
    /\ log[3].held = log[2].issued
    /\ SessionToken(log[3]) = log[1].held
    /\ SessionToken(log[3]) # log[3].held

====
